---- MODULE Spec2Model ----
(***************************************************************************)
(* The request-dispatch pipeline of cyro: the Response State               *)
(* (ResponseHandler), the middleware chain (MiddlewareHandler), the route  *)
(* table (RoutesHandler) and the dispatcher (RequestHandler), wired by the *)
(* System singleton.                                                       *)
(*                                                                         *)
(* A callback (middleware or route handler) is an async function whose     *)
(* body is a straight-line sequence of operations on the response object, *)
(* of awaits and of throws.  Between two awaits JavaScript runs a task to  *)
(* completion, so one action of the model is the code executed from one    *)
(* suspension point to the next.                                           *)
(*                                                                         *)
(* RequestHandler reads system.res as a property, so the System modelled   *)
(* is the one whose constructor builds the ResponseHandler once; the       *)
(* ResponseHandler is the one that validates the status code.              *)
(* finishState(), which RequestHandler calls, is defined by no             *)
(* ResponseHandler of the sources and is taken to report the finished flag.*)
(*                                                                         *)
(* Spec is the served application: registrations, then dispatches.         *)
(* SetupSpec is the route table and the middleware chain called directly,  *)
(* with arguments of any kind; ResponseSpec is the Response State called   *)
(* directly; DbSpec is the Database addon called directly.  In the three,  *)
(* the variable call keeps the last call and its outcome.  HungSpec is     *)
(* Spec with the fairness of the event loop: a queued continuation runs.   *)
(* ServedSpec is the application set up and serving, where moreover every  *)
(* suspended callback goes on.                                             *)
(***************************************************************************)
EXTENDS Integers, Sequences, FiniteSets, TLC

\* bounds of the model
MaxMw == 2          \* middleware entries registered
MaxRoutes == 1      \* routes registered
MaxDispatch == 2    \* requests the listener delivers
MaxTable == 2       \* routes registered when the route table is exercised alone

\* the dispatches in flight at one time: two, so that one overlap is possible; a
\* dispatch whose response the listener has taken frees its place
Dispatches == {1, 2}

(***************************************************************************)
(* Values                                                                  *)
(***************************************************************************)
Str(s) == [kind |-> "string", val |-> s]
Obj(s) == [kind |-> "object", val |-> s]
NullBody == [kind |-> "null", val |-> ""]
UNDEF == "<undefined>"

\* a JavaScript number used as a status code: the integer n, or n + 1/2; any
\* other argument (a string, undefined) is not a number
Num(n) == [kind |-> "number", n |-> n, half |-> FALSE]
NumAndHalf(n) == [kind |-> "number", n |-> n, half |-> TRUE]
NotANumber(k) == [kind |-> k, n |-> 0, half |-> FALSE]

GenericBody == "Internal Server Error"
Secret == "secret failure message"

\* body.trim().startsWith("<") && body.trim().endsWith(">") on the strings used
HtmlStrings == {"<h1>hi</h1>"}
isHTML(s) == s \in HtmlStrings

\* typeof body === "object" (true of null, plain objects, buffers and typed arrays)
typeofObject(b) == b.kind \in {"null", "object", "arraybuffer", "uint8array"}
instanceofArrayBuffer(b) == b.kind = "arraybuffer"

\* an ArrayBuffer and a Uint8Array holding the bytes 1, 2
ArrayBufferBody == [kind |-> "arraybuffer", val |-> "1,2"]
Uint8ArrayBody == [kind |-> "uint8array", val |-> "1,2"]

\* the own enumerable properties of a typed array are its indices
IndexedBytes(v) == IF v = "1,2" THEN "0:1,1:2" ELSE v

\* JSON.stringify on the values used: a string is quoted, a typed array is
\* serialized as an object keyed by index, an ArrayBuffer has no own property
JSONstringify(b) ==
  CASE b.kind = "null" -> "null"
    [] b.kind = "string" -> "\"" \o b.val \o "\""
    [] b.kind = "uint8array" -> "{" \o IndexedBytes(b.val) \o "}"
    [] b.kind = "arraybuffer" -> "{}"
    [] OTHER -> "{" \o b.val \o "}"

\* encodeURIComponent on the cookie values used
encodeURIComponent(v) == IF v = "a b" THEN "a%20b" ELSE v

\* Headers normalises header names to lower case
Lower(n) ==
  CASE n = "Content-Type" -> "content-type"
    [] n = "Location" -> "location"
    [] n = "Set-Cookie" -> "set-cookie"
    [] n = "X-B" -> "x-b"
    [] n = "X-C" -> "x-c"
    [] n = "X-H" -> "x-h"
    [] OTHER -> n

EmptyHeaders == [n \in {} |-> ""]
NoMap == [kind |-> "object", name |-> "", map |-> EmptyHeaders]
HName(n) == [kind |-> "string", name |-> n, map |-> EmptyHeaders]
HMap(m) == [kind |-> "object", name |-> "", map |-> m]

\* Headers.set(key, val)
HeadersSet(h, key, val) ==
  [n \in DOMAIN h \cup {Lower(key)} |-> IF n = Lower(key) THEN val ELSE h[n]]

(***************************************************************************)
(* Response State: class ResponseHandler                                   *)
(***************************************************************************)
\* constructor
NewResponseHandler ==
  [statusCode |-> 200, half |-> FALSE, headers |-> EmptyHeaders, body |-> NullBody,
   finished |-> FALSE]

\* status(code); the field statusCode of the object is the number
\* r.statusCode, plus one half when r.half
status(r, code) ==
  IF /\ code.kind = "number"
     /\ code.n >= 100
     /\ (code.n < 599 \/ (code.n = 599 /\ ~code.half))
  THEN [r EXCEPT !.statusCode = code.n, !.half = code.half]
  ELSE [r EXCEPT !.statusCode = 500, !.half = FALSE]

\* header(nameOrHeaders, value)
header(r, nameOrHeaders, value) ==
  IF nameOrHeaders.kind = "object"
  THEN LET m == nameOrHeaders.map
           keyOf(n) == CHOOSE key \in DOMAIN m : Lower(key) = n
           names == {Lower(key) : key \in DOMAIN m}
       IN [r EXCEPT !.headers = [n \in DOMAIN r.headers \cup names |->
                                   IF n \in names THEN m[keyOf(n)] ELSE r.headers[n]]]
  ELSE IF nameOrHeaders.kind = "string" /\ value # UNDEF
  THEN [r EXCEPT !.headers = HeadersSet(r.headers, nameOrHeaders.name, value)]
  ELSE r

\* setContentType(body)
setContentType(r, body) ==
  IF body.kind = "string"
  THEN header(r, HName("Content-Type"), IF isHTML(body.val) THEN "text/html" ELSE "text/plain")
  ELSE IF typeofObject(body) /\ ~instanceofArrayBuffer(body)
  THEN header(r, HName("Content-Type"), "application/json")
  ELSE IF instanceofArrayBuffer(body)
  THEN header(r, HName("Content-Type"), "application/octet-stream")
  ELSE r

\* formatBody(body)
formatBody(body) ==
  IF typeofObject(body) /\ ~instanceofArrayBuffer(body)
  THEN Str(JSONstringify(body))
  ELSE body

\* new Response(body, {status, headers}): the value handed to the listener; the
\* status is converted to an unsigned short, which drops the fraction
Response(r) ==
  [kind |-> "Response", status |-> r.statusCode, headers |-> r.headers, body |-> r.body]
Undefined ==
  [kind |-> "undefined", status |-> 0, headers |-> EmptyHeaders, body |-> NullBody]
NoValue ==
  [kind |-> "none", status |-> 0, headers |-> EmptyHeaders, body |-> NullBody]

\* the Response constructor rejects a status outside 200..599 and a body on a
\* null-body status
ResponseThrows(r) ==
  \/ r.statusCode < 200
  \/ r.statusCode > 599
  \/ (r.statusCode \in {204, 205, 304} /\ r.body # NullBody)

\* end() that forgets the terminal transition
endNotFinished(r) ==
  [res |-> r, ret |-> Response(r)]

\* end() and internalServerError(); each returns the new state and the value
\* the method returns
RECURSIVE internalServerError(_)
end(r) ==
  LET f == [r EXCEPT !.finished = TRUE] IN
  IF ResponseThrows(f)
  THEN internalServerError(f)
  ELSE [res |-> f, ret |-> Response(f)]

internalServerError(r) ==
  end([status(r, Num(500)) EXCEPT !.body = Str(GenericBody)])

\* send() that does nothing on a finished response
sendOnce(r, body, code, headers) ==
  IF r.finished THEN [res |-> r, ret |-> Response(r)]
  ELSE LET r1 == status(r, IF code.kind = "undefined" THEN Num(200) ELSE code)
           r2 == header(r1, headers, UNDEF)
           r3 == setContentType(r2, body)
           r4 == [r3 EXCEPT !.body = formatBody(body)]
       IN end(r4)

\* send() that replaces the headers by its argument, as the earlier
\* ResponseHandler did
sendReplaces(r, body, code, headers) ==
  LET r1 == status(r, IF code.kind = "undefined" THEN Num(200) ELSE code)
      r2 == header([r1 EXCEPT !.headers = EmptyHeaders], headers, UNDEF)
      r3 == setContentType(r2, body)
      r4 == [r3 EXCEPT !.body = formatBody(body)]
  IN end(r4)

\* send(body, status = 200, headers = {})
send(r, body, code, headers) ==
  LET r1 == status(r, IF code.kind = "undefined" THEN Num(200) ELSE code)
      r2 == header(r1, headers, UNDEF)
      r3 == setContentType(r2, body)
      r4 == [r3 EXCEPT !.body = formatBody(body)]
  IN end(r4)

\* json(data, status = 200, headers = {})
json(r, data, code, headers) ==
  send(header(r, HName("Content-Type"), "application/json"),
       Str(JSONstringify(data)), code, headers)

\* text(text, status = 200, headers = {})
text(r, body, code, headers) ==
  send(header(r, HName("Content-Type"), "text/plain"), body, code, headers)

\* html(htmlContent, status = 200, headers = {})
html(r, htmlContent, code, headers) ==
  send(header(r, HName("Content-Type"), "text/html"), htmlContent, code, headers)

\* redirect(url, status = 302)
redirect(r, url, code) ==
  LET r1 == status(r, IF code.kind = "undefined" THEN Num(302) ELSE code)
      r2 == header(r1, HName("Location"), url)
  IN end([r2 EXCEPT !.body = NullBody])

\* cookie(name, value, options = {}): with no option the cookie string is
\* name=encoded value
cookie(r, name, value) ==
  header(r, HName("Set-Cookie"), name \o "=" \o encodeURIComponent(value))

\* finishState(): called by the dispatcher, reports the finished flag
finishState(r) == r.finished

(***************************************************************************)
(* Route Table: class RoutesHandler                                        *)
(***************************************************************************)
SupportedMethods == {"GET", "POST", "PUT", "DELETE", "PATCH", "HEAD", "OPTIONS"}

\* constructor
NewRoutes == [m \in SupportedMethods |-> <<>>]

\* method.toUpperCase() on the method names used
toUpperCase(m) ==
  CASE m = "get" -> "GET"
    [] m = "post" -> "POST"
    [] m = "trace" -> "TRACE"
    [] OTHER -> m

\* a path or a pattern is a sequence of characters
Lit(c) == [t |-> "lit", c |-> c]
Param == [t |-> "param", c |-> ""]
Star == [t |-> "star", c |-> ""]
AnyChar == [t |-> "any", c |-> ""]

\* last index of the maximal run of non-separator characters starting at i
RECURSIVE RunEnd(_, _)
RunEnd(p, i) ==
  IF i + 1 <= Len(p) /\ p[i + 1] # "/" THEN RunEnd(p, i + 1) ELSE i

\* _convertPathToRegex(path): the regular expression as a sequence of tokens,
\* and the keys.  ":name" becomes ([^\/]+), "*" becomes ".*", every other
\* character stands for itself in the regular expression ("." is any character)
RECURSIVE convertFrom(_, _)
convertFrom(p, i) ==
  IF i > Len(p) THEN [regex |-> <<>>, keys |-> <<>>]
  ELSE IF p[i] = ":" /\ i + 1 <= Len(p) /\ p[i + 1] # "/"
  THEN LET j == RunEnd(p, i + 1)
           rest == convertFrom(p, j + 1)
       IN [regex |-> <<Param>> \o rest.regex,
           keys |-> <<SubSeq(p, i + 1, j)>> \o rest.keys]
  ELSE LET rest == convertFrom(p, i + 1)
           tok == IF p[i] = "*" THEN Star
                  ELSE IF p[i] = "." THEN AnyChar
                  ELSE Lit(p[i])
       IN [regex |-> <<tok>> \o rest.regex, keys |-> rest.keys]

convertPathToRegex(path) == convertFrom(path, 1)

\* regex.test(pathname) for ^...$
RECURSIVE testFrom(_, _, _, _)
testFrom(re, ti, s, si) ==
  IF ti > Len(re) THEN si > Len(s)
  ELSE CASE re[ti].t = "lit" ->
              si <= Len(s) /\ s[si] = re[ti].c /\ testFrom(re, ti + 1, s, si + 1)
         [] re[ti].t = "any" ->
              si <= Len(s) /\ testFrom(re, ti + 1, s, si + 1)
         [] re[ti].t = "param" ->
              \E n \in 1..(Len(s) - si + 1) :
                 /\ \A x \in si..(si + n - 1) : s[x] # "/"
                 /\ testFrom(re, ti + 1, s, si + n)
         [] re[ti].t = "star" ->
              \E n \in 0..(Len(s) - si + 1) : testFrom(re, ti + 1, s, si + n)

test(re, s) == testFrom(re, 1, s, 1)

\* pathname.match(regex) for a pathname the regex accepts: the captured groups
\* in order.  A quantifier is greedy: it takes the longest run that lets the
\* rest of the expression match
RECURSIVE groupsFrom(_, _, _, _)
groupsFrom(re, ti, s, si) ==
  IF ti > Len(re) THEN <<>>
  ELSE CASE re[ti].t \in {"lit", "any"} -> groupsFrom(re, ti + 1, s, si + 1)
         [] re[ti].t = "param" ->
              LET fits == {n \in 1..(Len(s) - si + 1) :
                             /\ \A x \in si..(si + n - 1) : s[x] # "/"
                             /\ testFrom(re, ti + 1, s, si + n)}
                  n == CHOOSE n \in fits : \A m \in fits : m <= n
              IN <<SubSeq(s, si, si + n - 1)>> \o groupsFrom(re, ti + 1, s, si + n)
         [] re[ti].t = "star" ->
              LET fits == {n \in 0..(Len(s) - si + 1) : testFrom(re, ti + 1, s, si + n)}
                  n == CHOOSE n \in fits : \A m \in fits : m <= n
              IN groupsFrom(re, ti + 1, s, si + n)

match(re, s) == groupsFrom(re, 1, s, 1)

\* a find that keeps the last element the predicate accepts
RECURSIVE findLast(_, _, _)
findLast(rs, x, pathname) ==
  IF x < 1 THEN 0
  ELSE IF test(rs[x].regex, pathname) THEN x
  ELSE findLast(rs, x - 1, pathname)

matchRouteLast(rs, pathname) == findLast(rs, Len(rs), pathname)

\* Array.prototype.find from element x on: the index of the first element the
\* predicate accepts, 0 when there is none
RECURSIVE find(_, _, _)
find(rs, x, pathname) ==
  IF x > Len(rs) THEN 0
  ELSE IF test(rs[x].regex, pathname) THEN x
  ELSE find(rs, x + 1, pathname)

\* routes.routes[method].find((r) => r.regex.test(pathname))
matchRoute(rs, pathname) == find(rs, 1, pathname)

\* route.keys.forEach((key, index) => dynamicparams[key] = match[index + 1]):
\* the assignments are made in order, a later one replaces an earlier one of
\* the same key
RECURSIVE assignFrom(_, _, _, _)
assignFrom(keys, groups, x, dyn) ==
  IF x > Len(keys) THEN dyn
  ELSE assignFrom(keys, groups, x + 1,
                  [k \in DOMAIN dyn \cup {keys[x]} |->
                     IF k = keys[x] THEN groups[x] ELSE dyn[k]])

NoParams == [k \in {} |-> <<>>]
dynamicparams(route, pathname) ==
  assignFrom(route.keys, match(route.regex, pathname), 1, NoParams)

\* arguments of a registration: JavaScript values.  A method is a string or
\* not; a path is a string (a sequence of characters) or not; a handler is a
\* function or not.  A symbol is a value that cannot be converted to a string
MethodValue(k, m) == [kind |-> k, val |-> m]
PathValue(k, p) == [kind |-> k, val |-> p]
HandlerValue(k, h) == [kind |-> k, val |-> h]
ToStringThrows(v) == v.kind = "symbol"

\* route() with a table that grows a sequence for whatever method it is given
routeUnvalidated(rs, method, path, handler) ==
  IF /\ method.kind = "string"
     /\ path.kind = "string" /\ Len(path.val) > 0 /\ path.val[1] = "/"
     /\ handler.kind = "function"
  THEN LET m == toUpperCase(method.val)
           c == convertPathToRegex(path.val)
           e == [regex |-> c.regex, keys |-> c.keys, handler |-> handler.val]
       IN [routes |-> [k \in DOMAIN rs \cup {m} |->
                         IF k = m THEN Append(IF m \in DOMAIN rs THEN rs[m] ELSE <<>>, e)
                         ELSE rs[k]],
           out |-> "return", reported |-> FALSE]
  ELSE [routes |-> rs, out |-> "return", reported |-> TRUE]

\* route() that puts the new route in front of the method's sequence
routePrepends(rs, method, path, handler) ==
  IF /\ method.kind = "string" /\ toUpperCase(method.val) \in SupportedMethods
     /\ path.kind = "string" /\ Len(path.val) > 0 /\ path.val[1] = "/"
     /\ handler.kind = "function"
  THEN LET m == toUpperCase(method.val)
           c == convertPathToRegex(path.val)
       IN [routes |-> [rs EXCEPT ![m] =
                         <<[regex |-> c.regex, keys |-> c.keys,
                            handler |-> handler.val]>> \o @],
           out |-> "return", reported |-> FALSE]
  ELSE IF ToStringThrows(method) \/ ToStringThrows(path)
  THEN [routes |-> rs, out |-> "throw", reported |-> FALSE]
  ELSE [routes |-> rs, out |-> "return", reported |-> TRUE]

\* route(method, path, handler): the table after the call, how the call ends,
\* and whether a failure was reported with system.error.  The catch clause
\* formats method and path into its message
route(rs, method, path, handler) ==
  IF /\ method.kind = "string" /\ toUpperCase(method.val) \in SupportedMethods
     /\ path.kind = "string" /\ Len(path.val) > 0 /\ path.val[1] = "/"
     /\ handler.kind = "function"
  THEN LET m == toUpperCase(method.val)
           c == convertPathToRegex(path.val)
       IN [routes |-> [rs EXCEPT ![m] =
                         Append(@, [regex |-> c.regex, keys |-> c.keys,
                                    handler |-> handler.val])],
           out |-> "return", reported |-> FALSE]
  ELSE IF ToStringThrows(method) \/ ToStringThrows(path)
  THEN [routes |-> rs, out |-> "throw", reported |-> FALSE]
  ELSE [routes |-> rs, out |-> "return", reported |-> TRUE]

\* the lookup of RequestHandler: a method that is no key of the table is a
\* fault, a path no route matches is "not found", otherwise the route and the
\* dynamic parameters handed to its handler
resolve(rs, method, pathname) ==
  IF method \notin DOMAIN rs
  THEN [out |-> "throw", index |-> 0, dynamic |-> NoParams]
  ELSE LET x == matchRoute(rs[method], pathname) IN
       IF x = 0
       THEN [out |-> "notfound", index |-> 0, dynamic |-> NoParams]
       ELSE [out |-> "handler", index |-> x,
             dynamic |-> dynamicparams(rs[method][x], pathname)]

\* Object.fromEntries that keeps the first value of a key
RECURSIVE fromEntriesFirst(_)
fromEntriesFirst(entries) ==
  IF entries = <<>> THEN EmptyHeaders
  ELSE LET n == Len(entries)
           o == fromEntriesFirst(SubSeq(entries, 1, n - 1))
       IN IF entries[n][1] \in DOMAIN o THEN o
          ELSE [k \in DOMAIN o \cup {entries[n][1]} |->
                  IF k = entries[n][1] THEN entries[n][2] ELSE o[k]]

\* Object.fromEntries(entries): each entry in order defines the property of its
\* key, replacing the value an earlier entry gave it
RECURSIVE fromEntries(_)
fromEntries(entries) ==
  IF entries = <<>> THEN EmptyHeaders
  ELSE LET n == Len(entries)
           o == fromEntries(SubSeq(entries, 1, n - 1))
       IN [k \in DOMAIN o \cup {entries[n][1]} |->
             IF k = entries[n][1] THEN entries[n][2] ELSE o[k]]

\* queryParams = Object.fromEntries(url.searchParams.entries())
queryParams(search) == fromEntries(search)

(***************************************************************************)
(* Middleware Chain: registration                                          *)
(***************************************************************************)
\* use() that stores the argument before it looks at it
useUnchecked(mws, middleware) ==
  [middlewares |-> Append(mws, middleware.val),
   out |-> IF middleware.kind # "function" THEN "throw" ELSE "return"]

\* MiddlewareHandler.use(middleware)
use(mws, middleware) ==
  IF middleware.kind # "function"
  THEN [middlewares |-> mws, out |-> "throw"]
  ELSE [middlewares |-> Append(mws, middleware.val), out |-> "return"]

(***************************************************************************)
(* Database addon: class DatabaseHandler                                   *)
(***************************************************************************)
\* constructor; connection is TRUE for an open SQLite connection, FALSE for
\* null.  inited and asked are history: init has got as far as storing the
\* policy, and the ignoreErrors argument it was given.  rows is the set of
\* tables of the database file that hold a row
NewDatabaseHandler ==
  [connection |-> FALSE, ignoreError |-> TRUE, inited |-> FALSE, asked |-> TRUE,
   rows |-> {}]

\* the tables of the database file, and the names validateIdentifier accepts
ExistingTables == {"users"}
validateIdentifier(name) == name \in {"users", "missing"}

\* returnError(error): how the catch clause that calls it ends
returnError(d) == IF ~d.ignoreError THEN "throw" ELSE "return"

\* init(path = "./database/cyro.db", strict = true, ignoreErrors = true)
init(d, path, ignoreErrors) ==
  IF path = ""
  THEN [db |-> d, out |-> returnError(d), failed |-> TRUE, reported |-> TRUE]
  ELSE [db |-> [d EXCEPT !.ignoreError = ~ignoreErrors, !.connection = TRUE,
                         !.inited = TRUE, !.asked = ignoreErrors],
        out |-> "return", failed |-> FALSE, reported |-> FALSE]

\* insert, update, delete, select, get (on a table, without filters) and
\* close: the try block throws on a name validateIdentifier rejects, without a
\* connection, when SQLite rejects the statement, and in get when no row is
\* found; the catch clause reports and calls returnError
operation(d, op, tableName) ==
  LET throws == IF op = "close" THEN ~d.connection
                ELSE \/ ~validateIdentifier(tableName)
                     \/ ~d.connection
                     \/ tableName \notin ExistingTables
                     \/ (op = "get" /\ tableName \notin d.rows)
  IN IF throws
     THEN [db |-> d, out |-> returnError(d), failed |-> TRUE, reported |-> TRUE]
     ELSE [db |-> CASE op = "close" -> [d EXCEPT !.connection = FALSE]
                    [] op = "insert" -> [d EXCEPT !.rows = @ \cup {tableName}]
                    [] op = "delete" -> [d EXCEPT !.rows = @ \ {tableName}]
                    [] OTHER -> d,
           out |-> "return", failed |-> FALSE, reported |-> FALSE]

(***************************************************************************)
(* Callbacks registered by the application                                 *)
(***************************************************************************)
Op(o, body, code, hdrs) == [op |-> o, body |-> body, code |-> code, hdrs |-> hdrs]
OpSend(body, code) == Op("send", body, Num(code), NoMap)
OpStatus(code) == Op("status", NullBody, Num(code), NoMap)
OpHeader(n, v) == Op("header", Str(v), Num(0), HName(n))
OpAwait == Op("await", NullBody, Num(0), NoMap)
OpThrow == Op("throw", Str(Secret), Num(0), NoMap)

\* middleware functions: one denies access (as in the README), one sets a
\* header, one throws, one awaits and then sets a status, one sets another
\* header
MiddlewareFns == {"mwDeny", "mwHeader", "mwThrow", "mwAsync", "mwHeaderC"}
\* route handlers: one sends, one throws, one awaits and returns without
\* finishing the response, one sends and then throws, one sends with headers
HandlerFns == {"hSend", "hThrow", "hWait", "hSendThrow", "hSendHeaders"}

Body(fn) ==
  CASE fn = "mwDeny" -> <<OpSend(Str("Access Denied"), 403)>>
    [] fn = "mwHeader" -> <<OpHeader("X-B", "1")>>
    [] fn = "mwThrow" -> <<OpThrow>>
    [] fn = "mwAsync" -> <<OpAwait, OpStatus(201)>>
    [] fn = "hSend" -> <<OpSend(Str("hello"), 200)>>
    [] fn = "hThrow" -> <<OpThrow>>
    [] fn = "hWait" -> <<OpAwait>>
    [] fn = "mwHeaderC" -> <<OpHeader("X-C", "1")>>
    [] fn = "hSendThrow" -> <<OpSend(Str("hello"), 200), OpThrow>>
    [] fn = "hSendHeaders" ->
         <<Op("send", Str("hello"), Num(201), HMap([n \in {"X-C"} |-> "2"]))>>

\* the code of a callback from operation k up to its next await, its return or
\* its throw, run on response object r
RECURSIVE RunOps(_, _, _)
RunOps(ops, k, r) ==
  IF k > Len(ops) THEN [res |-> r, k |-> k, out |-> "return"]
  ELSE CASE ops[k].op = "await" -> [res |-> r, k |-> k + 1, out |-> "await"]
         [] ops[k].op = "throw" -> [res |-> r, k |-> k, out |-> "throw"]
         [] ops[k].op = "status" -> RunOps(ops, k + 1, status(r, ops[k].code))
         [] ops[k].op = "header" ->
              RunOps(ops, k + 1, header(r, ops[k].hdrs, ops[k].body.val))
         [] ops[k].op = "send" ->
              RunOps(ops, k + 1, send(r, ops[k].body, ops[k].code, ops[k].hdrs).res)

\* requests of the listener
UrlA == [ok |-> TRUE, pathname |-> <<"/", "a">>]
BadUrl == [ok |-> FALSE, pathname |-> <<>>]
Requests ==
  { [method |-> "GET", url |-> UrlA],
    [method |-> "TRACE", url |-> UrlA],
    [method |-> "GET", url |-> BadUrl] }

\* registrations the application makes
RouteChoices ==
  { [method |-> "GET", path |-> <<"/", "a">>, handler |-> "hSend"],
    [method |-> "get", path |-> <<"/", ":", "i">>, handler |-> "hThrow"],
    [method |-> "GET", path |-> <<"/", "a">>, handler |-> "hWait"] }

(***************************************************************************)
(* State                                                                   *)
(***************************************************************************)
VARIABLES
  middlewares,  \* MiddlewareHandler.middlewares: sequence of middleware functions
  routes,       \* RoutesHandler.routes: method -> sequence of {regex, keys, handler}
  serving,      \* App.run has been called: the listener delivers requests
  res,          \* system.res: the ResponseHandler built by the System constructor
  task,         \* per dispatch: the position and the locals of RequestHandler
  served,       \* number of requests delivered by the listener so far
  obs,          \* per dispatch: history of the run (not program state)
  call,         \* the last call the application made on a component, and how
                \* it ended (not program state)
  db            \* the DatabaseHandler of the Database addon

vars == <<middlewares, routes, serving, res, task, served, obs, call, db>>

NewTask ==
  [pc |-> "idle", req |-> [method |-> "", url |-> BadUrl], i |-> 0, k |-> 0,
   rfm |-> "none", h |-> "none", ret |-> NoValue]

NewObs ==
  [log |-> <<>>, fresh |-> TRUE, own |-> NewResponseHandler, iso |-> TRUE]

NoCall == [op |-> "none"]

Init ==
  /\ middlewares = <<>>
  /\ routes = NewRoutes
  /\ serving = FALSE
  /\ res = NewResponseHandler
  /\ task = [d \in Dispatches |-> NewTask]
  /\ served = 0
  /\ obs = [d \in Dispatches |-> NewObs]
  /\ call = NoCall
  /\ db = NewDatabaseHandler

(***************************************************************************)
(* Middleware Chain: class MiddlewareHandler                               *)
(***************************************************************************)
Ev(e, id) == [e |-> e, id |-> id]
HandlerId == 0

Settled(out, id) ==
  CASE out = "await" -> <<>>
    [] out = "return" -> <<Ev("end", id)>>
    [] out = "throw" -> <<Ev("throw", id)>>

MwPc(out) ==
  CASE out = "await" -> "mw" [] out = "return" -> "mwret" [] out = "throw" -> "mwthrow"

\* the for-of loop of applyMiddlewares: the entry after entry i
NextMiddleware(i) == i + 1

\* the chain that never looks at the finished flag
middlewareFinishedNever(r) == FALSE

\* if (res.finished) after a middleware has completed
middlewareFinished(r) == r.finished

\* a chain that does not await: when entry i suspends, entry i + 1 is started
invokeMiddlewareNoAwait(t, i, r) ==
  IF i > Len(middlewares)
  THEN [t |-> [t EXCEPT !.pc = "chainret", !.rfm = "null", !.i = i, !.k = 0],
        r |-> r, ev |-> <<>>]
  ELSE LET run == RunOps(Body(middlewares[i]), 1, r) IN
       [t |-> [t EXCEPT !.pc = MwPc(run.out), !.i = i, !.k = run.k],
        r |-> run.res,
        ev |-> <<Ev("start", i)>> \o Settled(run.out, i) \o
               (IF run.out = "await" /\ i < Len(middlewares)
                THEN <<Ev("start", i + 1)>> ELSE <<>>)]

\* applyMiddlewares from entry i on: return null when the sequence is exhausted,
\* otherwise call the entry and run it up to its first suspension
invokeMiddleware(t, i, r) ==
  IF i > Len(middlewares)
  THEN [t |-> [t EXCEPT !.pc = "chainret", !.rfm = "null", !.i = i, !.k = 0],
        r |-> r, ev |-> <<>>]
  ELSE LET run == RunOps(Body(middlewares[i]), 1, r) IN
       [t |-> [t EXCEPT !.pc = MwPc(run.out), !.i = i, !.k = run.k],
        r |-> run.res, ev |-> <<Ev("start", i)>> \o Settled(run.out, i)]

\* a suspended middleware goes on up to its next suspension
resumeMiddleware(t, r) ==
  LET run == RunOps(Body(middlewares[t.i]), t.k, r) IN
  [t |-> [t EXCEPT !.pc = MwPc(run.out), !.k = run.k],
   r |-> run.res, ev |-> Settled(run.out, t.i)]

\* a chain whose catch clause answers 500 and goes on with the next entry
afterMiddlewareGoesOn(t, r, dec) ==
  IF t.pc = "mwthrow"
  THEN invokeMiddleware(t, NextMiddleware(t.i),
                        send(r, Str(GenericBody), Num(500), NoMap).res)
  ELSE IF middlewareFinished(dec)
  THEN [t |-> [t EXCEPT !.pc = "chainret", !.rfm = "res"], r |-> r, ev |-> <<>>]
  ELSE invokeMiddleware(t, NextMiddleware(t.i), r)

\* the continuation of "await middleware(req, res)": the catch clause, the
\* finished check, or the next iteration; dec is the object the check reads
afterMiddleware(t, r, dec) ==
  IF t.pc = "mwthrow"
  THEN [t |-> [t EXCEPT !.pc = "chainret", !.rfm = "Response"],
        r |-> send(r, Str(GenericBody), Num(500), NoMap).res, ev |-> <<>>]
  ELSE IF middlewareFinished(dec)
  THEN [t |-> [t EXCEPT !.pc = "chainret", !.rfm = "res"], r |-> r, ev |-> <<>>]
  ELSE invokeMiddleware(t, NextMiddleware(t.i), r)

(***************************************************************************)
(* Request Dispatcher: RequestHandler                                      *)
(***************************************************************************)
Return(t, r, v) ==
  [t |-> [t EXCEPT !.pc = "done", !.ret = v], r |-> r, ev |-> <<>>]

HPc(out) ==
  CASE out = "await" -> "h" [] out = "return" -> "hret" [] out = "throw" -> "hthrow"

\* an outer catch clause that lets the fault go
catchRequestHandlerRethrow(t, r) ==
  [t |-> [t EXCEPT !.pc = "rejected"], r |-> r, ev |-> <<>>]

\* catch (err) of RequestHandler
catchRequestHandler(t, r) ==
  LET s == send(r, Str(GenericBody), Num(500), NoMap) IN Return(t, s.res, s.ret)

\* a handler catch clause that reflects the failure to the caller
catchHandlerLeaks(t, r) ==
  LET s == send(r, Str(Secret), Num(500), NoMap) IN Return(t, s.res, s.ret)

\* catch (error) around the route handler
catchHandler(t, r) ==
  LET s == send(r, Str(GenericBody), Num(500), NoMap) IN Return(t, s.res, s.ret)

\* RequestHandler up to the first suspension: take system.res, call applyMiddlewares
startRequest(t, rq, r) ==
  invokeMiddleware([t EXCEPT !.req = rq], 1, r)

\* the continuation of "await middleware.applyMiddlewares(req, res)" up to the
\* next suspension; dec is the object finishState() reads
afterChain(t, r, dec) ==
  IF t.rfm # "null" /\ finishState(dec)
  THEN LET e == end(r) IN Return(t, e.res, e.ret)
  ELSE IF ~t.req.url.ok
  THEN Return(t, send(r, Str("Bad Request"), Num(400), NoMap).res, Undefined)
  ELSE IF t.req.method \notin DOMAIN routes
  THEN catchRequestHandler(t, r)
  ELSE LET x == matchRoute(routes[t.req.method], t.req.url.pathname) IN
       IF x = 0
       THEN Return(t, send(r, Str("Not Found"), Num(404), NoMap).res, Undefined)
       ELSE LET fn == routes[t.req.method][x].handler
                run == RunOps(Body(fn), 1, r)
            IN [t |-> [t EXCEPT !.pc = HPc(run.out), !.h = fn, !.k = run.k],
                r |-> run.res,
                ev |-> <<Ev("start", HandlerId)>> \o Settled(run.out, HandlerId)]

\* a suspended handler goes on up to its next suspension
resumeHandler(t, r) ==
  LET run == RunOps(Body(t.h), t.k, r) IN
  [t |-> [t EXCEPT !.pc = HPc(run.out), !.k = run.k],
   r |-> run.res, ev |-> Settled(run.out, HandlerId)]

\* a dispatcher that returns only once the response is finished, and leaves the
\* request open until then
afterHandlerLeavesOpen(t, r) ==
  IF t.pc = "hthrow"
  THEN catchHandler(t, r)
  ELSE IF r.finished
  THEN Return(t, r, Undefined)
  ELSE [t |-> t, r |-> r, ev |-> <<>>]

\* the continuation of "await route.handler(req, res, option)"
afterHandler(t, r) ==
  IF t.pc = "hthrow"
  THEN catchHandler(t, r)
  ELSE Return(t, end(r).res, Undefined)

(***************************************************************************)
(* Actions                                                                 *)
(***************************************************************************)
NumRoutes == LET RECURSIVE Sum(_)
                 Sum(S) == IF S = {} THEN 0
                           ELSE LET m == CHOOSE m \in S : TRUE
                                IN Len(routes[m]) + Sum(S \ {m})
             IN Sum(DOMAIN routes)

\* MiddlewareHandler.use(middleware), through App.middleware
Use(fn) ==
  /\ ~serving
  /\ Len(middlewares) < MaxMw
  /\ middlewares' = use(middlewares, HandlerValue("function", fn)).middlewares
  /\ UNCHANGED <<routes, serving, res, task, served, obs, call, db>>

\* RoutesHandler.route(method, path, handler), through App.req_route
Route(rc) ==
  /\ ~serving
  /\ NumRoutes < MaxRoutes
  /\ routes' = route(routes, MethodValue("string", rc.method),
                     PathValue("string", rc.path),
                     HandlerValue("function", rc.handler)).routes
  /\ UNCHANGED <<middlewares, serving, res, task, served, obs, call, db>>

\* App.run(port): serve({fetch: (req) => system.req(req)})
Run ==
  /\ ~serving
  /\ serving' = TRUE
  /\ UNCHANGED <<middlewares, routes, res, task, served, obs, call, db>>

\* the step s of dispatch d on the shared object; o is the same step on an
\* object owned by d alone
Commit(d, s, o) ==
  /\ res' = s.r
  /\ task' = [task EXCEPT ![d] = s.t]
  /\ obs' = [obs EXCEPT ![d] =
               [@ EXCEPT !.log = @ \o s.ev,
                         !.own = IF s.t.pc = "done" THEN NewResponseHandler ELSE o.r,
                         !.iso = IF s.t.pc = "done" THEN s.t.ret = o.t.ret ELSE @]]
  /\ UNCHANGED <<middlewares, routes, serving, served, call, db>>

\* no continuation of an await is queued: every dispatch in flight is suspended
\* inside a callback that awaits something of its own
MicrotasksDrained ==
  \A e \in Dispatches : task[e].pc \in {"idle", "mw", "h", "done", "rejected"}

\* the listener calls fetch, i.e. system.req(req), for an inbound request; the
\* call is made from the event loop, after the queued continuations have run
Dispatch(d, rq) ==
  /\ serving
  /\ MicrotasksDrained
  /\ served < MaxDispatch
  /\ task[d].pc = "idle"
  /\ \A e \in Dispatches : e < d => task[e].pc # "idle"
  /\ served' = served + 1
  /\ res' = startRequest(task[d], rq, res).r
  /\ task' = [task EXCEPT ![d] = startRequest(task[d], rq, res).t]
  /\ obs' = [obs EXCEPT ![d] =
               [@ EXCEPT !.log = startRequest(task[d], rq, res).ev,
                         !.fresh = (res = NewResponseHandler),
                         !.own = startRequest(task[d], rq, res).r]]
  /\ UNCHANGED <<middlewares, routes, serving, call, db>>

\* the promise of system.req(req) has settled and the listener has taken its
\* value: the dispatch is over
Deliver(d) ==
  /\ task[d].pc \in {"done", "rejected"}
  /\ task' = [task EXCEPT ![d] = NewTask]
  /\ obs' = [obs EXCEPT ![d] = NewObs]
  /\ UNCHANGED <<middlewares, routes, serving, res, served, call, db>>

MiddlewareResumes(d) ==
  /\ task[d].pc = "mw"
  /\ Commit(d, resumeMiddleware(task[d], res), resumeMiddleware(task[d], obs[d].own))

MiddlewareSettles(d) ==
  /\ task[d].pc \in {"mwret", "mwthrow"}
  /\ Commit(d, afterMiddleware(task[d], res, res),
               afterMiddleware(task[d], obs[d].own, res))

ChainSettles(d) ==
  /\ task[d].pc = "chainret"
  /\ Commit(d, afterChain(task[d], res, res), afterChain(task[d], obs[d].own, res))

HandlerResumes(d) ==
  /\ task[d].pc = "h"
  /\ Commit(d, resumeHandler(task[d], res), resumeHandler(task[d], obs[d].own))

HandlerSettles(d) ==
  /\ task[d].pc \in {"hret", "hthrow"}
  /\ Commit(d, afterHandler(task[d], res), afterHandler(task[d], obs[d].own))

Next ==
  \/ \E fn \in MiddlewareFns : Use(fn)
  \/ \E rc \in RouteChoices : Route(rc)
  \/ Run
  \/ \E d \in Dispatches, rq \in Requests : Dispatch(d, rq)
  \/ \E d \in Dispatches : MiddlewareResumes(d)
  \/ \E d \in Dispatches : MiddlewareSettles(d)
  \/ \E d \in Dispatches : ChainSettles(d)
  \/ \E d \in Dispatches : HandlerResumes(d)
  \/ \E d \in Dispatches : HandlerSettles(d)
  \/ \E d \in Dispatches : Deliver(d)

Spec == Init /\ [][Next]_vars

\* the continuations of an await of RequestHandler and of applyMiddlewares are
\* microtasks: the event loop runs each of them once it is queued.  Whether the
\* promise a callback awaits ever settles is up to the callback: a callback
\* whose promise never settles is hung
Continues(d) == MiddlewareSettles(d) \/ ChainSettles(d) \/ HandlerSettles(d)
CallbackGoesOn(d) == MiddlewareResumes(d) \/ HandlerResumes(d)

HungSpec == Spec /\ \A d \in Dispatches : WF_vars(Continues(d))

\* The application once it is set up and serving, with callbacks that all go
\* on: the middleware chain and the route it has registered
ServedApps ==
  { [chain |-> <<"mwHeader", "mwAsync">>,
     rc |-> [method |-> "GET", path |-> <<"/", "a">>, handler |-> "hWait"]],
    [chain |-> <<"mwAsync", "mwDeny">>,
     rc |-> [method |-> "GET", path |-> <<"/", "a">>, handler |-> "hSend"]],
    [chain |-> <<"mwThrow">>,
     rc |-> [method |-> "GET", path |-> <<"/", "a">>, handler |-> "hSend"]],
    [chain |-> <<>>,
     rc |-> [method |-> "get", path |-> <<"/", ":", "i">>, handler |-> "hThrow"]],
    [chain |-> <<"mwHeader">>,
     rc |-> [method |-> "GET", path |-> <<"/", "a">>, handler |-> "hSendThrow"]],
    [chain |-> <<"mwHeader", "mwHeaderC">>,
     rc |-> [method |-> "GET", path |-> <<"/", "a">>, handler |-> "hSendHeaders"]],
    [chain |-> <<>>,
     rc |-> [method |-> "POST", path |-> <<"/", "a">>, handler |-> "hSend"]] }

ServedInit ==
  /\ \E app \in ServedApps :
       /\ middlewares = app.chain
       /\ routes = route(NewRoutes, MethodValue("string", app.rc.method),
                         PathValue("string", app.rc.path),
                         HandlerValue("function", app.rc.handler)).routes
  /\ serving = TRUE
  /\ res = NewResponseHandler
  /\ task = [d \in Dispatches |-> NewTask]
  /\ served = 0
  /\ obs = [d \in Dispatches |-> NewObs]
  /\ call = NoCall
  /\ db = NewDatabaseHandler

ServedNext ==
  \/ \E d \in Dispatches, rq \in Requests : Dispatch(d, rq)
  \/ \E d \in Dispatches : MiddlewareResumes(d)
  \/ \E d \in Dispatches : MiddlewareSettles(d)
  \/ \E d \in Dispatches : ChainSettles(d)
  \/ \E d \in Dispatches : HandlerResumes(d)
  \/ \E d \in Dispatches : HandlerSettles(d)
  \/ \E d \in Dispatches : Deliver(d)

ServedSpec ==
  /\ ServedInit /\ [][ServedNext]_vars
  /\ \A d \in Dispatches : WF_vars(Continues(d)) /\ WF_vars(CallbackGoesOn(d))

(***************************************************************************)
(* The application's calls on the route table and the middleware chain,    *)
(* taken alone                                                             *)
(***************************************************************************)
Registrations ==
  { [method |-> MethodValue("string", "GET"),
     path |-> PathValue("string", <<"/", "u", "/", "n">>),
     handler |-> HandlerValue("function", "hSend")],
    [method |-> MethodValue("string", "GET"),
     path |-> PathValue("string", <<"/", "u", "/", ":", "i">>),
     handler |-> HandlerValue("function", "hThrow")],
    [method |-> MethodValue("string", "get"),
     path |-> PathValue("string", <<"/", ":", "a", "/", ":", "b">>),
     handler |-> HandlerValue("function", "hWait")],
    [method |-> MethodValue("string", "POST"),
     path |-> PathValue("string", <<"/", "u", "/", ":", "i">>),
     handler |-> HandlerValue("function", "hSend")],
    [method |-> MethodValue("string", "GET"),
     path |-> PathValue("string", <<"/", ":", "a", "/", ":", "a">>),
     handler |-> HandlerValue("function", "hWait")],
    [method |-> MethodValue("string", "GET"),
     path |-> PathValue("string", <<"/", "u", ".", "n">>),
     handler |-> HandlerValue("function", "hSend")],
    [method |-> MethodValue("string", "GET"),
     path |-> PathValue("string", <<"/", "f", "/", "*">>),
     handler |-> HandlerValue("function", "hSend")],
    [method |-> MethodValue("string", "TRACE"),
     path |-> PathValue("string", <<"/", "u", "/", "n">>),
     handler |-> HandlerValue("function", "hSend")],
    [method |-> MethodValue("undefined", ""),
     path |-> PathValue("string", <<"/", "u", "/", "n">>),
     handler |-> HandlerValue("function", "hSend")],
    [method |-> MethodValue("string", "GET"),
     path |-> PathValue("string", <<"u", "/", "n">>),
     handler |-> HandlerValue("function", "hSend")],
    [method |-> MethodValue("string", "GET"),
     path |-> PathValue("number", <<>>),
     handler |-> HandlerValue("function", "hSend")],
    [method |-> MethodValue("string", "GET"),
     path |-> PathValue("symbol", <<>>),
     handler |-> HandlerValue("function", "hSend")],
    [method |-> MethodValue("string", "GET"),
     path |-> PathValue("string", <<"/", "u", "/", "n">>),
     handler |-> HandlerValue("undefined", "")] }

MiddlewareValues ==
  { HandlerValue("function", "mwDeny"), HandlerValue("function", "mwHeader"),
    HandlerValue("undefined", ""), HandlerValue("string", "") }

LookupMethods == {"GET", "POST", "TRACE"}
\* the URLs requested: the pathname, and the entries of url.searchParams in the
\* order of the query string (?a=1&a=2, ?a=1&b=2&a=3, ...)
LookupUrls ==
  { [pathname |-> <<"/", "u", "/", "n">>, search |-> << <<"a", "1">>, <<"a", "2">> >>],
    [pathname |-> <<"/", "u", "/", "4", "2">>,
     search |-> << <<"a", "1">>, <<"b", "2">>, <<"a", "3">> >>],
    [pathname |-> <<"/", "u", "/">>, search |-> << >>],
    [pathname |-> <<"/", "x">>, search |-> << <<"a", "1">> >>],
    [pathname |-> <<"/", "u", "X", "n">>, search |-> << >>],
    [pathname |-> <<"/", "u", "/", "4", "/", "2">>, search |-> << <<"b", "2">> >>],
    [pathname |-> <<"/", "f", "/">>, search |-> << >>],
    [pathname |-> <<"/", "f", "/", "a", "/", "b">>, search |-> << >>] }
LookupPaths == {u.pathname : u \in LookupUrls}

\* routes.route(method, path, handler)
CallRoute(a) ==
  /\ NumRoutes < MaxTable
  /\ LET r == route(routes, a.method, a.path, a.handler) IN
       /\ routes' = r.routes
       /\ call' = [op |-> "route", args |-> a, out |-> r.out,
                   changed |-> r.routes # routes]
  /\ UNCHANGED <<middlewares, serving, res, task, served, obs, db>>

\* middlewareChain.use(func)
CallUse(f) ==
  /\ Len(middlewares) < MaxMw
  /\ LET r == use(middlewares, f) IN
       /\ middlewares' = r.middlewares
       /\ call' = [op |-> "use", args |-> f, out |-> r.out, before |-> middlewares]
  /\ UNCHANGED <<routes, serving, res, task, served, obs, db>>

\* the lookup RequestHandler makes for a request of method m and path p
CallResolve(m, u) ==
  /\ LET r == resolve(routes, m, u.pathname) IN
       call' = [op |-> "resolve",
                args |-> [method |-> m, pathname |-> u.pathname, search |-> u.search],
                out |-> r.out, index |-> r.index, dynamic |-> r.dynamic,
                query |-> queryParams(u.search)]
  /\ UNCHANGED <<middlewares, routes, serving, res, task, served, obs, db>>

SetupNext ==
  \/ \E a \in Registrations : CallRoute(a)
  \/ \E f \in MiddlewareValues : CallUse(f)
  \/ \E m \in LookupMethods, u \in LookupUrls : CallResolve(m, u)

SetupSpec == Init /\ [][SetupNext]_vars

(***************************************************************************)
(* The calls of a callback on the Response State, taken alone              *)
(***************************************************************************)
StatusArgs ==
  { Num(99), Num(100), Num(200), Num(404), Num(599), Num(600), NumAndHalf(200),
    NotANumber("string"), NotANumber("undefined") }

\* the status arguments of the finishing calls: omitted, accepted, rejected
FinishCodes == {NotANumber("undefined"), Num(404), Num(99)}

SendBodies ==
  {Str("hello"), Str("<h1>hi</h1>"), Obj("a:1"), NullBody, ArrayBufferBody, Uint8ArrayBody}
JsonData == {Obj("a:1")}
TextBodies == {Str("hello"), Str("<h1>hi</h1>")}
HeaderArgs ==
  { [h |-> HName("X-H"), v |-> "1"],          \* header("X-H", "1")
    [h |-> HName("X-H"), v |-> UNDEF] }       \* header("X-H"): rejected
Cookies == {[name |-> "sid", value |-> "a b"], [name |-> "theme", value |-> "dark"]}
RedirectUrl == "/login"

\* the record kept of a call: the method, its arguments and the Response State
\* it was made on
Called(op, code, body, name) ==
  [op |-> op, code |-> code, body |-> body, name |-> name, before |-> res]

\* res.status(code)
CallStatus(code) ==
  /\ res' = status(res, code)
  /\ call' = Called("status", code, NullBody, "")
  /\ UNCHANGED <<middlewares, routes, serving, task, served, obs, db>>

\* res.header(nameOrHeaders, value)
CallHeader(a) ==
  /\ res' = header(res, a.h, a.v)
  /\ call' = Called("header", NotANumber("undefined"), NullBody, a.h.name)
  /\ UNCHANGED <<middlewares, routes, serving, task, served, obs, db>>

\* res.cookie(name, value)
CallCookie(c) ==
  /\ res' = cookie(res, c.name, c.value)
  /\ call' = Called("cookie", NotANumber("undefined"), Str(c.value), c.name)
  /\ UNCHANGED <<middlewares, routes, serving, task, served, obs, db>>

\* res.send(body, status)
CallSend(body, code) ==
  /\ res' = send(res, body, code, NoMap).res
  /\ call' = Called("send", code, body, "")
  /\ UNCHANGED <<middlewares, routes, serving, task, served, obs, db>>

\* res.json(data, status)
CallJson(data, code) ==
  /\ res' = json(res, data, code, NoMap).res
  /\ call' = Called("json", code, data, "")
  /\ UNCHANGED <<middlewares, routes, serving, task, served, obs, db>>

\* res.text(text, status)
CallText(body, code) ==
  /\ res' = text(res, body, code, NoMap).res
  /\ call' = Called("text", code, body, "")
  /\ UNCHANGED <<middlewares, routes, serving, task, served, obs, db>>

\* res.html(htmlContent, status)
CallHtml(body, code) ==
  /\ res' = html(res, body, code, NoMap).res
  /\ call' = Called("html", code, body, "")
  /\ UNCHANGED <<middlewares, routes, serving, task, served, obs, db>>

\* res.redirect(url, status)
CallRedirect(code) ==
  /\ res' = redirect(res, RedirectUrl, code).res
  /\ call' = Called("redirect", code, NullBody, RedirectUrl)
  /\ UNCHANGED <<middlewares, routes, serving, task, served, obs, db>>

\* res.end()
CallEnd ==
  /\ res' = end(res).res
  /\ call' = Called("end", NotANumber("undefined"), NullBody, "")
  /\ UNCHANGED <<middlewares, routes, serving, task, served, obs, db>>

\* res.binary(data): the class has no member binary, the call expression
\* throws a TypeError before anything is written
CallBinary(data) ==
  /\ res' = res
  /\ call' = Called("binary", NotANumber("undefined"), data, "")
  /\ UNCHANGED <<middlewares, routes, serving, task, served, obs, db>>

ResponseNext ==
  \/ \E code \in StatusArgs : CallStatus(code)
  \/ \E a \in HeaderArgs : CallHeader(a)
  \/ \E c \in Cookies : CallCookie(c)
  \/ \E body \in SendBodies, code \in FinishCodes : CallSend(body, code)
  \/ \E data \in JsonData, code \in FinishCodes : CallJson(data, code)
  \/ \E body \in TextBodies, code \in FinishCodes : CallText(body, code)
  \/ \E body \in TextBodies, code \in FinishCodes : CallHtml(body, code)
  \/ \E code \in FinishCodes : CallRedirect(code)
  \/ CallEnd
  \/ CallBinary(Uint8ArrayBody)

ResponseSpec == Init /\ [][ResponseNext]_vars

(***************************************************************************)
(* The application's calls on the Database addon, taken alone              *)
(***************************************************************************)
DbPaths == {"./database/cyro.db", ""}
DbOperations == {"insert", "update", "delete", "select", "get", "close"}
DbTables == {"users", "missing", "no such; name"}

\* app.db.init(path, strict, ignoreErrors); ignoreErrors is TRUE when omitted
CallInit(path, ignoreErrors) ==
  /\ LET r == init(db, path, ignoreErrors) IN
       /\ db' = r.db
       /\ call' = [op |-> "init", table |-> "", out |-> r.out, failed |-> r.failed,
                   reported |-> r.reported]
  /\ UNCHANGED <<middlewares, routes, serving, res, task, served, obs>>

\* app.db.insert/update/delete/select/get(tableName, ...) and app.db.close()
CallDb(op, tableName) ==
  /\ LET r == operation(db, op, tableName) IN
       /\ db' = r.db
       /\ call' = [op |-> op, table |-> tableName, out |-> r.out, failed |-> r.failed,
                   reported |-> r.reported]
  /\ UNCHANGED <<middlewares, routes, serving, res, task, served, obs>>

DbNext ==
  \/ \E path \in DbPaths, ignoreErrors \in BOOLEAN : CallInit(path, ignoreErrors)
  \/ \E op \in DbOperations, t \in DbTables : CallDb(op, t)

DbSpec == Init /\ [][DbNext]_vars

(***************************************************************************)
(* Properties                                                              *)
(***************************************************************************)
Done(d) == task[d].pc = "done"
Log(d) == obs[d].log
Invoked(d, id) == \E x \in 1..Len(Log(d)) : Log(d)[x] = Ev("start", id)
Threw(d, id) == \E x \in 1..Len(Log(d)) : Log(d)[x] = Ev("throw", id)
MiddlewareThrew(d) == \E i \in 1..Len(middlewares) : Threw(d, i)
IsMw(e) == e.id # HandlerId
MwLog(d) == SelectSeq(Log(d), IsMw)

\* C1: whenever a dispatch has returned, whatever path it took, the Response
\* State is finished.
C1_FinishedAtReturn ==
  \A d \in Dispatches : Done(d) => res.finished

\* a dispatch has returned after a handler that did not finish the response:
\* the dispatcher itself made the terminal transition
C1_Witness ==
  \E d \in Dispatches :
    Done(d) /\ task[d].h = "hWait" /\ task[d].ret = Undefined /\ res.finished

\* C2: once the Response State is finished, no step (a mutator called by a
\* middleware, a handler or the dispatcher) changes its status code, headers
\* or body.
C2_NoMutationAfterFinish ==
  [][res.finished =>
       /\ res'.statusCode = res.statusCode
       /\ res'.headers = res.headers
       /\ res'.body = res.body]_vars

C4_FreshPerDispatch ==
  \A d \in Dispatches : task[d].pc # "idle" => obs[d].fresh

\* C5: the response a dispatch returns is the one it would return if it owned
\* its Response State alone from the moment it started: no write made for
\* another request in the meantime shows in it.
C5_ExclusiveOwnership ==
  \A d \in Dispatches : Done(d) => obs[d].iso

\* C6: the value a dispatch resolves to is a response on every path, never an
\* empty value.
C6_ReturnsResponse ==
  \A d \in Dispatches : Done(d) => task[d].ret.kind = "Response"

C8_HandlerFault ==
  \A d \in Dispatches :
    Threw(d, HandlerId) =>
      /\ task[d].pc # "rejected"
      /\ Done(d) => /\ task[d].ret.kind = "Response"
                    /\ task[d].ret.status = 500
                    /\ task[d].ret.body = Str(GenericBody)
                    /\ task[d].ret.body # Str(Secret)

\* a dispatch whose handler threw has returned
C8_Witness ==
  \E d \in Dispatches : Done(d) /\ Threw(d, HandlerId) /\ task[d].h = "hThrow"

\* C9: no dispatch ever rejects, and a dispatch in which a fault occurred (a
\* callback threw, the URL did not parse, the method is not a key of the route
\* table) returns with the Response State finished.
Faulted(d) ==
  \/ \E x \in 1..Len(Log(d)) : Log(d)[x].e = "throw"
  \/ ~task[d].req.url.ok
  \/ task[d].req.method \notin DOMAIN routes

C10_SequentialInOrder ==
  \A d \in Dispatches :
    \A x \in 1..Len(MwLog(d)) :
      IF x % 2 = 1
      THEN MwLog(d)[x] = Ev("start", (x + 1) \div 2)
      ELSE MwLog(d)[x].e \in {"end", "throw"} /\ MwLog(d)[x].id = x \div 2

\* the asynchronous first entry was suspended, completed, and only then the
\* second entry was started
C10_Witness ==
  \E d \in Dispatches :
    /\ Len(middlewares) >= 2 /\ middlewares[1] = "mwAsync"
    /\ Len(MwLog(d)) >= 3
    /\ MwLog(d)[2] = Ev("end", 1) /\ MwLog(d)[3] = Ev("start", 2)

\* the middleware of the chain neither call a finishing method nor throw
QuietMiddlewares == {"mwHeader", "mwAsync"}
QuietChain == \A i \in 1..Len(middlewares) : middlewares[i] \in QuietMiddlewares

\* the request of dispatch d has a URL that parses, a method of the route
\* table, and a path that a route of that method matches
Routable(d) ==
  /\ task[d].req.url.ok
  /\ task[d].req.method \in DOMAIN routes
  /\ matchRoute(routes[task[d].req.method], task[d].req.url.pathname) # 0

\* C11: in every dispatch, the first or a later one, whose middleware neither
\* finish the response nor throw, all registered middleware have run and the
\* handler of the matching route has been invoked by the time it returns.
C11_PassThroughReachesHandler ==
  \A d \in Dispatches :
    (Done(d) /\ QuietChain /\ Routable(d)) =>
      /\ \A i \in 1..Len(middlewares) : Invoked(d, i)
      /\ Invoked(d, HandlerId)

\* the routes of the looked-up method that accept the looked-up path
Candidates ==
  LET rs == routes[call.args.method] IN
  {x \in 1..Len(rs) : test(rs[x].regex, call.args.pathname)}

Literal_u_n == convertPathToRegex(<<"/", "u", "/", "n">>).regex
Param_u_i == convertPathToRegex(<<"/", "u", "/", ":", "i">>).regex

\* C12: a lookup selects the first-registered route of the method among those
\* whose pattern accepts the path, and none when no pattern accepts it; with
\* the literal /u/n registered before /u/:i, looking up /u/n selects the
\* handler of the literal route.
C12_FirstRegisteredWins ==
  (call.op = "resolve" /\ call.args.method \in DOMAIN routes) =>
    LET rs == routes[call.args.method] IN
    /\ (Candidates = {}) <=> (call.index = 0)
    /\ Candidates # {} =>
         /\ call.index \in Candidates
         /\ \A y \in Candidates : call.index <= y
    /\ ( /\ Len(rs) >= 2
         /\ rs[1].regex = Literal_u_n /\ rs[1].handler = "hSend"
         /\ rs[2].regex = Param_u_i /\ rs[2].handler = "hThrow"
         /\ call.args.pathname = <<"/", "u", "/", "n">> ) =>
           (call.index # 0 /\ rs[call.index].handler = "hSend")

\* /u/n was registered before /u/:i, both accept /u/n, and the lookup took the
\* literal route
C12_Witness ==
  /\ call.op = "resolve" /\ call.args.method = "GET"
  /\ call.args.pathname = <<"/", "u", "/", "n">>
  /\ Len(routes["GET"]) >= 2
  /\ routes["GET"][1].regex = Literal_u_n /\ routes["GET"][2].regex = Param_u_i
  /\ Candidates = {1, 2}
  /\ call.index = 1

\* the k-th segment of a path: the characters after its k-th separator, up to
\* the next separator
Separators(p) == {x \in 1..Len(p) : p[x] = "/"}
SegmentAt(p, k) ==
  LET a == CHOOSE x \in Separators(p) :
             Cardinality({y \in Separators(p) : y <= x}) = k
      after == {y \in Separators(p) : y > a}
      b == IF after = {} THEN Len(p) + 1
           ELSE CHOOSE y \in after : \A z \in after : y <= z
  IN SubSeq(p, a + 1, b - 1)

\* the segment in which the x-th parameter of a compiled pattern stands
ParamTokens(re) == {t \in 1..Len(re) : re[t].t = "param"}
SegmentOfParam(re, x) ==
  LET t == CHOOSE t \in ParamTokens(re) :
             Cardinality({u \in ParamTokens(re) : u <= t}) = x
  IN Cardinality({u \in 1..t : re[u] = Lit("/")})

\* C13: when a lookup selects a route, the dynamic mapping has exactly the
\* parameter names of the route's pattern, and each parameter is bound to the
\* segment of the path at the parameter's position; /u/:i looked up with /u/42
\* gives {i: "42"}.
C13_DynamicRoundTrip ==
  (call.op = "resolve" /\ call.out = "handler") =>
    LET rt == routes[call.args.method][call.index] IN
    /\ DOMAIN call.dynamic = {rt.keys[x] : x \in 1..Len(rt.keys)}
    /\ \A x \in 1..Len(rt.keys) :
         call.dynamic[rt.keys[x]] =
           SegmentAt(call.args.pathname, SegmentOfParam(rt.regex, x))

\* C14: a dispatch that was not ended by its middleware, with a method of the
\* route table and a path no route of the method matches, returns a response
\* with status 404 and has invoked no handler.
C14_NoMatchIs404 ==
  \A d \in Dispatches :
    ( /\ Done(d) /\ QuietChain
      /\ task[d].req.url.ok
      /\ task[d].req.method \in DOMAIN routes
      /\ matchRoute(routes[task[d].req.method], task[d].req.url.pathname) = 0 ) =>
        /\ task[d].ret.kind = "Response"
        /\ task[d].ret.status = 404
        /\ ~Invoked(d, HandlerId)

C16_BadUrlIs400 ==
  \A d \in Dispatches :
    /\ ~task[d].req.url.ok => ~Invoked(d, HandlerId)
    /\ (Done(d) /\ QuietChain /\ ~task[d].req.url.ok) =>
         /\ task[d].ret.kind = "Response"
         /\ task[d].ret.status = 400
         /\ \A i \in 1..Len(middlewares) : Invoked(d, i)

\* the arguments a registration accepts
ValidRegistration(a) ==
  /\ a.method.kind = "string"
  /\ a.method.val \in {"GET", "POST", "PUT", "DELETE", "PATCH", "HEAD", "OPTIONS",
                       "get", "post"}
  /\ a.path.kind = "string" /\ Len(a.path.val) > 0 /\ a.path.val[1] = "/"
  /\ a.handler.kind = "function"

\* C17: a registration with an unsupported method, a path that is not a string
\* beginning with "/", or a handler that is not a function returns normally
\* and leaves the route table as it was.
C17_FailedRegistrationHarmless ==
  (call.op = "route" /\ ~ValidRegistration(call.args)) =>
    /\ call.out = "return"
    /\ ~call.changed

\* C18: the route table has an entry for each of the seven methods and for no
\* other, whatever registrations succeeded or failed.
C18_TableKeys ==
  DOMAIN routes = {"GET", "POST", "PUT", "DELETE", "PATCH", "HEAD", "OPTIONS"}

\* a registration for TRACE has failed on a table that holds a route
C18_Witness ==
  /\ call.op = "route" /\ call.args.method.val = "TRACE"
  /\ ~call.changed
  /\ NumRoutes >= 1

\* C19: use(fn) with a function returns and leaves the sequence extended by fn
\* at its end; with anything else it throws to the caller and leaves the
\* sequence as it was.
C19_AppendOrThrow ==
  call.op = "use" =>
    IF call.args.kind = "function"
    THEN call.out = "return" /\ middlewares = Append(call.before, call.args.val)
    ELSE call.out = "throw" /\ middlewares = call.before

\* use() has thrown on a sequence that holds an entry
C19_Witness ==
  /\ call.op = "use" /\ call.args.kind # "function" /\ call.out = "throw"
  /\ Len(middlewares) >= 1

\* C20: status(code) stores an integer code of 100..599 and stores 500 for any
\* other argument; after any sequence of status and send calls the status code
\* is an integer in 100..599.
C20_StatusInRange ==
  /\ res.statusCode \in 100..599
  /\ ~res.half
  /\ call.op = "status" =>
       IF call.code.kind = "number" /\ ~call.code.half /\ call.code.n \in 100..599
       THEN res.statusCode = call.code.n
       ELSE res.statusCode = 500

\* a status argument under which the finishing call builds its own Response:
\* omitted, or an integer the Response constructor takes with a body
AcceptedCode(c) ==
  \/ c.kind = "undefined"
  \/ (c.kind = "number" /\ ~c.half /\ c.n \in 200..599 /\ c.n \notin {204, 205, 304})

\* the Content-Type the response carries, "" when it carries none
ContentType(r) ==
  IF "content-type" \in DOMAIN r.headers THEN r.headers["content-type"] ELSE ""

\* C21: send(body) sets Content-Type by the kind of the payload and finishes:
\* an object gives application/json and the serialized body, a string that
\* begins with < and ends with > gives text/html, any other string text/plain,
\* an ArrayBuffer or a Uint8Array application/octet-stream with the bytes as body.
C21_SendContentType ==
  (call.op = "send" /\ call.body # NullBody) =>
    /\ res.finished
    /\ AcceptedCode(call.code) =>
         CASE call.body.kind = "object" ->
                /\ ContentType(res) = "application/json"
                /\ res.body = Str(JSONstringify(call.body))
           [] call.body.kind = "string" ->
                /\ ContentType(res) =
                     (IF call.body.val = "<h1>hi</h1>" THEN "text/html" ELSE "text/plain")
                /\ res.body = call.body
           [] call.body.kind \in {"arraybuffer", "uint8array"} ->
                /\ ContentType(res) = "application/octet-stream"
                /\ res.body = call.body

\* C22: the explicit helpers fix the content type whatever the payload looks
\* like: json(data) leaves application/json and the serialization of data,
\* text(body) leaves text/plain, html(body) leaves text/html.
C22_HelpersFixContentType ==
  (call.op \in {"json", "text", "html"} /\ AcceptedCode(call.code)) =>
    /\ call.op = "json" =>
         /\ ContentType(res) = "application/json"
         /\ res.body = Str(JSONstringify(call.body))
    /\ call.op = "text" => ContentType(res) = "text/plain"
    /\ call.op = "html" => ContentType(res) = "text/html"

\* C23: on a Pending response status() and header() leave finished false; each
\* of send, json, text, html, binary, redirect and end leaves it Finished; no
\* call sets finished back to false.
C23_ResponseStateMachine ==
  call.op # "none" =>
    /\ (call.op \in {"status", "header"} /\ ~call.before.finished) => ~res.finished
    /\ call.op \in {"send", "json", "text", "html", "binary", "redirect", "end"} =>
         res.finished
    /\ call.before.finished => res.finished

\* response.headers.getSetCookie(): the Set-Cookie values the response carries
getSetCookie(h) ==
  IF "set-cookie" \in DOMAIN h THEN {h["set-cookie"]} ELSE {}

\* C24: cookies are additive: after cookie(n1, v1) then cookie(n2, v2) with two
\* different names on a Pending response, both Set-Cookie values are carried.
C24_CookiesAdditive ==
  (call.op = "cookie" /\ ~call.before.finished) =>
    \A c \in Cookies :
      ( /\ c.name # call.name
        /\ getSetCookie(call.before.headers) = {c.name \o "=" \o encodeURIComponent(c.value)} ) =>
          getSetCookie(res.headers) =
            { c.name \o "=" \o encodeURIComponent(c.value),
              call.name \o "=" \o encodeURIComponent(call.body.val) }

\* C25: send(null) adds no header: the response is finished with an absent
\* body and the headers it had before the call.
C25_SendNullAddsNoHeader ==
  (call.op = "send" /\ call.body = NullBody /\ AcceptedCode(call.code)) =>
    /\ res.finished
    /\ res.body = NullBody
    /\ res.headers = call.before.headers

\* C26: the query mapping handed to the handler has exactly the query keys of
\* the URL, each with one string value, the value of the key's last occurrence.
C26_QueryLastWins ==
  (call.op = "resolve" /\ call.out = "handler") =>
    LET e == call.args.search
        occ(k) == {x \in 1..Len(e) : e[x][1] = k}
        last(k) == CHOOSE x \in occ(k) : \A y \in occ(k) : y <= x
    IN /\ DOMAIN call.query = {e[x][1] : x \in 1..Len(e)}
       /\ \A k \in DOMAIN call.query : call.query[k] = e[last(k)][2]

\* a handler was found for ?a=1&b=2&a=3 and a is "3"
C26_Witness ==
  /\ call.op = "resolve" /\ call.out = "handler"
  /\ call.args.search = << <<"a", "1">>, <<"b", "2">>, <<"a", "3">> >>
  /\ call.query["a"] = "3" /\ call.query["b"] = "2"

\* the path strings a pattern describes: as many segments as the pattern, a
\* segment ":name" of the pattern standing for one non-empty segment, any other
\* segment for the identical text (both begin with "/"); a last segment "*"
\* stands for any remaining suffix
Describes(pat, s) ==
  LET np == Cardinality(Separators(pat))
      wild == np >= 1 /\ SegmentAt(pat, np) = <<"*">>
  IN /\ Len(s) > 0 /\ s[1] = "/"
     /\ IF wild THEN Cardinality(Separators(s)) >= np
        ELSE Cardinality(Separators(s)) = np
     /\ \A k \in 1..(IF wild THEN np - 1 ELSE np) :
          LET ps == SegmentAt(pat, k)
              ss == SegmentAt(s, k)
          IN IF Len(ps) >= 2 /\ ps[1] = ":" THEN Len(ss) >= 1 ELSE ss = ps

\* C27: the matcher of a stored route accepts exactly the paths its pattern
\* describes: a literal segment only the identical text, a named parameter
\* exactly one non-empty segment; /u/:i accepts /u/42 and rejects /u/, /u/4/2
\* and /uXn.
C27_MatcherExact ==
  (call.op = "route" /\ call.changed) =>
    LET rs == routes[toUpperCase(call.args.method.val)]
        re == rs[Len(rs)].regex
    IN \A s \in LookupPaths : test(re, s) <=> Describes(call.args.path.val, s)

\* C29: after init with ignoreErrors = true (the default) a failing insert,
\* update, delete, select, get or close is reported and returns to the caller;
\* it throws to the caller only after init with ignoreErrors = false.
C29_DatabaseErrorPolicy ==
  (call.op \in DbOperations /\ call.failed /\ db.inited) =>
    /\ call.reported
    /\ (call.out = "throw") <=> ~db.asked

\* a callback that calls a finishing method
Finishes(fn) == \E k \in 1..Len(Body(fn)) : Body(fn)[k].op = "send"

\* C30: within one dispatch the route handler is invoked at most once, after
\* every middleware entry has completed, never when a middleware finished the
\* response or threw, and no middleware runs once the handler has started.
C30_HandlerAfterChain ==
  \A d \in Dispatches :
    LET log == Log(d)
        starts == {x \in 1..Len(log) : log[x] = Ev("start", HandlerId)}
    IN /\ Cardinality(starts) <= 1
       /\ \A x \in starts :
            /\ \A i \in 1..Len(middlewares) :
                 /\ \E y \in 1..(x - 1) : log[y] = Ev("end", i)
                 /\ ~Finishes(middlewares[i])
            /\ \A y \in 1..Len(log) : IsMw(log[y]) => (y < x /\ log[y].e # "throw")

\* the handler has been invoked behind a chain of MaxMw entries, one of which
\* was suspended on the way
C30_Witness ==
  \E d \in Dispatches :
    /\ Invoked(d, HandlerId)
    /\ Len(middlewares) = MaxMw
    /\ \E i \in 1..Len(middlewares) : middlewares[i] = "mwAsync"

\* dispatch d is suspended in a callback (a middleware or the handler)
Suspended(d) == task[d].pc \in {"mw", "h"}

\* C28: a hung callback blocks only its own dispatch: when a dispatch o stays
\* suspended in a callback for ever, every other dispatch e whose own callbacks
\* go on, started before or after o, runs to completion and returns its own
\* terminal response.
C28_HungBlocksOnlyItself ==
  \A e, o \in Dispatches :
    (e # o /\ <>[]Suspended(o) /\ WF_vars(CallbackGoesOn(e))) =>
      ((task[e].pc # "idle") ~>
         (Done(e) /\ res.finished /\ task[e].ret.kind = "Response" /\ obs[e].iso))

\* a callback run to its end on r, its awaits included
RECURSIVE RunAll(_, _, _)
RunAll(ops, k, r) ==
  LET run == RunOps(ops, k, r) IN
  IF run.out = "await" THEN RunAll(ops, run.k, run.res) ELSE run.res

\* what the first n middleware of the chain leave in a Response State that was
\* new when the dispatch began
RECURSIVE LeftByChain(_)
LeftByChain(n) ==
  IF n = 0 THEN NewResponseHandler
  ELSE RunAll(Body(middlewares[n]), 1, LeftByChain(n - 1))

\* what the middleware and the handler of dispatch d leave in it
LeftBy(d) == RunAll(Body(task[d].h), 1, LeftByChain(Len(middlewares)))

\* C31: when the matched handler returns without calling a finishing method,
\* the dispatcher calls end(): the Response State is finished and holds the
\* status, headers and body the middleware and the handler of the dispatch
\* left in it (status 200 and no body when they set nothing).
C31_DispatcherFinalizes ==
  [][ \A d \in Dispatches :
        (task[d].pc = "hret" /\ ~Finishes(task[d].h) /\ task'[d].pc = "done") =>
          res' = [LeftBy(d) EXCEPT !.finished = TRUE] ]_vars

\* C32: a dispatch whose middleware and handler invocations all return or
\* throw returns: every dispatch that has begun is eventually done.
C32_DispatchTerminates ==
  \A d \in Dispatches : (task[d].pc # "idle") ~> Done(d)

\* a dispatch has returned after its middleware and its handler were suspended
C32_Witness ==
  \E d \in Dispatches :
    /\ Done(d) /\ task[d].h = "hWait" /\ Threw(d, HandlerId) = FALSE
    /\ Invoked(d, HandlerId)
    /\ \E i \in 1..Len(middlewares) : middlewares[i] = "mwAsync" /\ Invoked(d, i)

\* sequence t is sequence s with one element more at its end
Extends(s, t) == Len(t) = Len(s) + 1 /\ SubSeq(t, 1, Len(s)) = s

\* C33: a successful registration appends exactly one route at the end of the
\* sequence of its method and leaves every other sequence as it was, a rejected
\* one changes nothing; use(fn) only puts fn at the end of the chain; no call
\* removes or reorders a stored route or middleware, and the lookup a dispatch
\* makes modifies neither sequence.
C33_AppendOnly ==
  [][ /\ call'.op = "route" =>
           /\ middlewares' = middlewares
           /\ IF ValidRegistration(call'.args)
              THEN LET m == toUpperCase(call'.args.method.val) IN
                     /\ Extends(routes[m], routes'[m])
                     /\ routes'[m][Len(routes'[m])].handler = call'.args.handler.val
                     /\ \A k \in SupportedMethods \ {m} : routes'[k] = routes[k]
              ELSE routes' = routes
      /\ call'.op = "use" =>
           /\ routes' = routes
           /\ \/ middlewares' = middlewares
              \/ middlewares' = Append(middlewares, call'.args.val)
      /\ call'.op = "resolve" => routes' = routes /\ middlewares' = middlewares
      /\ DOMAIN routes' = SupportedMethods ]_vars

\* a second route has been appended behind the first of its method, and a
\* second middleware behind the first
C33_Witness ==
  /\ call.op = "route" /\ call.changed
  /\ Len(routes[toUpperCase(call.args.method.val)]) = 2
  /\ routes[toUpperCase(call.args.method.val)][1].handler # call.args.handler.val
  /\ Len(middlewares) = 2


\* C34: the parameter names of every stored route are pairwise distinct.
C34_ParamNamesDistinct ==
  \A m \in SupportedMethods : \A x \in 1..Len(routes[m]) :
    \A i, j \in 1..Len(routes[m][x].keys) :
      i # j => routes[m][x].keys[i] # routes[m][x].keys[j]


\* a compiled pattern of literal characters closed by the wildcard
TrailingWildcard(re) ==
  /\ Len(re) >= 2 /\ re[Len(re)] = Star /\ re[Len(re) - 1] = Lit("/")
  /\ \A t \in 1..(Len(re) - 1) : re[t].t = "lit"

\* path s begins with the literal characters of such a pattern
StartsWith(re, s) ==
  /\ Len(s) >= Len(re) - 1
  /\ \A t \in 1..(Len(re) - 1) : s[t] = re[t].c

\* C35: a route whose pattern ends in "*" matches every path that starts with
\* the text before the "*", with any number of further segments or none, and a
\* lookup that selects it makes the remainder of the path available as a
\* captured value.
C35_WildcardCaptures ==
  /\ \A m \in SupportedMethods : \A x \in 1..Len(routes[m]) :
       TrailingWildcard(routes[m][x].regex) =>
         \A s \in LookupPaths :
           StartsWith(routes[m][x].regex, s) => test(routes[m][x].regex, s)
  /\ (/\ call.op = "resolve" /\ call.out = "handler"
      /\ TrailingWildcard(routes[call.args.method][call.index].regex)) =>
       LET re == routes[call.args.method][call.index].regex
           remainder == SubSeq(call.args.pathname, Len(re), Len(call.args.pathname))
       IN \/ \E k \in DOMAIN call.dynamic : call.dynamic[k] = remainder
          \/ \E g \in 1..Len(match(re, call.args.pathname)) :
               match(re, call.args.pathname)[g] = remainder


\* C36: when a handler has finished the response and then throws, the dispatch
\* returns a response with status 500 and the body "Internal Server Error", not
\* the status and body the handler had sent.
C36_FaultAfterSend ==
  \A d \in Dispatches :
    (Done(d) /\ Threw(d, HandlerId) /\ Finishes(task[d].h)) =>
      /\ task[d].ret.kind = "Response"
      /\ task[d].ret.status = 500
      /\ task[d].ret.body = Str(GenericBody)
      /\ task[d].ret.body # Str("hello")

\* a dispatch has returned whose handler sent 200 and then threw
C36_Witness ==
  \E d \in Dispatches :
    /\ Done(d) /\ task[d].h = "hSendThrow" /\ Threw(d, HandlerId)
    /\ task[d].ret.status = 500

\* the header names a send call sets: those of its headers argument, and
\* Content-Type
SendNames(fn) ==
  {"content-type"} \cup
  UNION { {Lower(key) : key \in DOMAIN Body(fn)[k].hdrs.map} :
            k \in {x \in 1..Len(Body(fn)) : Body(fn)[x].op = "send"} }

\* callback id of dispatch d has run to its end or to its throw
Ran(d, id) ==
  \E x \in 1..Len(Log(d)) : Log(d)[x] \in {Ev("end", id), Ev("throw", id)}

\* C37: a header set with header() by a middleware that does not finish the
\* response is still there, with its value, once the handler of the same
\* dispatch has called send(body, status, headers), unless send itself sets
\* that name (its headers argument, Content-Type).
C37_SendMergesHeaders ==
  \A d \in Dispatches :
    (Ran(d, HandlerId) /\ Finishes(task[d].h)) =>
      \A i \in 1..Len(middlewares) :
        (~Finishes(middlewares[i]) /\ Ran(d, i)) =>
          \A k \in 1..Len(Body(middlewares[i])) :
            LET o == Body(middlewares[i])[k]
                n == Lower(o.hdrs.name)
            IN (o.op = "header" /\ n \notin SendNames(task[d].h)) =>
                 n \in DOMAIN res.headers /\ res.headers[n] = o.body.val

\* the handler has sent with a headers argument behind two middleware that set
\* a header each: the one it does not name is kept, the other has its value
C37_Witness ==
  \E d \in Dispatches :
    /\ Done(d) /\ task[d].h = "hSendHeaders" /\ Ran(d, HandlerId)
    /\ Ran(d, 1) /\ Ran(d, 2)
    /\ "x-b" \in DOMAIN res.headers /\ res.headers["x-b"] = "1"
    /\ "x-c" \in DOMAIN res.headers /\ res.headers["x-c"] = "2"
    /\ res.headers["content-type"] = "text/plain"


\* the methods other than m under which a route accepts the path
OtherMethods(m, pathname) ==
  {k \in SupportedMethods \ {m} : matchRoute(routes[k], pathname) # 0}

\* C38: a route is selected only for requests of the method it was registered
\* under; a dispatch whose path is matched only by routes of other methods
\* returns a response with status 404 and invokes no handler.
C38_MethodIsolation ==
  \A d \in Dispatches :
    /\ Invoked(d, HandlerId) =>
         \E x \in 1..Len(routes[task[d].req.method]) :
           /\ routes[task[d].req.method][x].handler = task[d].h
           /\ test(routes[task[d].req.method][x].regex, task[d].req.url.pathname)
    /\ ( /\ Done(d) /\ task[d].req.url.ok
         /\ task[d].req.method \in SupportedMethods
         /\ matchRoute(routes[task[d].req.method], task[d].req.url.pathname) = 0
         /\ OtherMethods(task[d].req.method, task[d].req.url.pathname) # {} ) =>
           /\ ~Invoked(d, HandlerId)
           /\ task[d].ret.kind = "Response"
           /\ task[d].ret.status = 404


====
